---- MODULE Spec2Model ----
(***************************************************************************)
(* Model of app.py: the semantic verse search service.                     *)
(*                                                                         *)
(* Strings are tuples of one-character strings, so that strip(), lower()   *)
(* and substring containment are computed as Python computes them.  The    *)
(* marker character U+274C of the tafsir filter is written "X".            *)
(*                                                                         *)
(* A record of quran_data is [id, tafsir]: id stands for the surah, ayah,  *)
(* arabic and english fields, which the program only passes through.       *)
(* An embedding is a tuple of integers.                                    *)
(***************************************************************************)
EXTENDS Integers, Sequences, FiniteSets, TLC

VARIABLES quran_data, embeddings, session_context, request, before, response,
          thr, base, serving, prior, run

vars == <<quran_data, embeddings, session_context, request, before, response,
          thr, base, serving, prior, run>>

-----------------------------------------------------------------------------
(* Bounds *)

MaxCorpus == 6

MaxCoord == 2

NumThreads == 2

(* Program constants *)

top_k == 5

MoreWindow == 5

-----------------------------------------------------------------------------
(* Strings *)

Whitespace == {" ", "\t", "\n"}

Upper == <<"A", "B", "C", "D", "E", "F", "G", "H", "I", "J", "K", "L", "M",
           "N", "O", "P", "Q", "R", "S", "T", "U", "V", "W", "X", "Y", "Z">>

LowerOf == <<"a", "b", "c", "d", "e", "f", "g", "h", "i", "j", "k", "l", "m",
             "n", "o", "p", "q", "r", "s", "t", "u", "v", "w", "x", "y", "z">>

LowerChar(c) ==
    IF \E k \in 1..Len(Upper) : Upper[k] = c
    THEN LowerOf[CHOOSE k \in 1..Len(Upper) : Upper[k] = c]
    ELSE c

\* str.lower()
Lower(s) == [k \in 1..Len(s) |-> LowerChar(s[k])]

RECURSIVE LStrip(_)
LStrip(s) == IF s # <<>> /\ Head(s) \in Whitespace THEN LStrip(Tail(s)) ELSE s

RECURSIVE RStrip(_)
RStrip(s) ==
    IF s # <<>> /\ s[Len(s)] \in Whitespace THEN RStrip(SubSeq(s, 1, Len(s) - 1)) ELSE s

\* str.strip(): drop leading and trailing whitespace
Strip(s) == RStrip(LStrip(s))

\* sub in s
Contains(s, sub) ==
    \E k \in 1..(Len(s) - Len(sub) + 1) : SubSeq(s, k, k + Len(sub) - 1) = sub

kw_next == <<"n", "e", "x", "t">>

kw_previous == <<"p", "r", "e", "v", "i", "o", "u", "s">>

kw_more == <<"m", "o", "r", "e">>

Marker == <<"X">>

\* Python slice seq[lo:hi] with 0 <= lo <= hi (0-based, hi exclusive, clipped)
Slice(seq, lo, hi) ==
    LET h == IF hi < Len(seq) THEN hi ELSE Len(seq)
    IN  IF lo >= h THEN <<>> ELSE SubSeq(seq, lo + 1, h)

-----------------------------------------------------------------------------
(* Vector index and search *)

RECURSIVE SumSq(_, _, _)
SumSq(u, v, d) ==
    IF d = 0 THEN 0 ELSE (u[d] - v[d]) * (u[d] - v[d]) + SumSq(u, v, d - 1)

\* squared Euclidean distance of IndexFlatL2
L2sqr(u, v) == SumSq(u, v, Len(u))

\* id a ranks before id b for the query vector q (ids are 0-based)
Closer(vecs, q, a, b) ==
    LET da == L2sqr(q, vecs[a + 1])
        db == L2sqr(q, vecs[b + 1])
    IN  da < db \/ (da = db /\ a < b)

RECURSIVE Ranked(_, _, _)
Ranked(vecs, q, ids) ==
    IF ids = {} THEN <<>>
    ELSE LET best == CHOOSE a \in ids : \A b \in ids \ {a} : Closer(vecs, q, a, b)
         IN  <<best>> \o Ranked(vecs, q, ids \ {best})

\* index.search(q, k)[1][0]: the labels of the k nearest stored vectors,
\* nearest first, filled with -1 when fewer than k vectors are stored
index_search(vecs, q, k) ==
    LET ranked == Ranked(vecs, q, 0..(Len(vecs) - 1))
    IN  [j \in 1..k |-> IF j <= Len(ranked) THEN ranked[j] ELSE -1]

\* list indexing data[i] is defined for -len <= i < len
ValidIndex(data, i) == -Len(data) <= i /\ i < Len(data)

\* data[i], a negative i counting from the end
ListGet(data, i) == IF i >= 0 THEN data[i + 1] ELSE data[Len(data) + i + 1]

\* v.get("tafsir") is truthy: the key is there and its string is not empty
HasTafsir(v) == "tafsir" \in DOMAIN v /\ v.tafsir # <<>>

\* presentable without the test for the marker
presentable_ignores_marker(v) ==
    /\ HasTafsir(v)
    /\ Strip(v.tafsir) # <<>>

\* the condition of the filter in search_verses
presentable(v) ==
    /\ HasTafsir(v)
    /\ Strip(v.tafsir) # <<>>
    /\ ~Contains(v.tafsir, Marker)

RECURSIVE FilterLoop(_, _, _)
FilterLoop(data, indices, j) ==
    IF j > Len(indices) THEN <<>>
    ELSE LET v == ListGet(data, indices[j])
         IN  (IF presentable(v) THEN <<v>> ELSE <<>>) \o FilterLoop(data, indices, j + 1)

\* search_verses asking the index for one neighbour more
search_verses_one_more(data, vecs, q_emb, k) ==
    LET indices == index_search(vecs, q_emb, k + 1)
    IN  IF \E j \in 1..Len(indices) : ~ValidIndex(data, indices[j])
        THEN [raised |-> TRUE, results |-> <<>>]
        ELSE [raised |-> FALSE, results |-> FilterLoop(data, indices, 1)]

\* search_verses(query, top_k) for the query embedding q_emb:
\* [raised |-> TRUE] when quran_data[i] raises IndexError
search_verses(data, vecs, q_emb, k) ==
    LET indices == index_search(vecs, q_emb, k)
    IN  IF \E j \in 1..Len(indices) : ~ValidIndex(data, indices[j])
        THEN [raised |-> TRUE, results |-> <<>>]
        ELSE [raised |-> FALSE, results |-> FilterLoop(data, indices, 1)]

format_verse_output(verses) ==
    [j \in 1..Len(verses) |-> [verse |-> verses[j].id, tafsir |-> verses[j].tafsir]]

-----------------------------------------------------------------------------
(* Responses *)

ErrorResponse(text, status) ==
    [status |-> status, kind |-> "error", text |-> text, verses |-> <<>>]

MessageResponse(text) ==
    [status |-> 200, kind |-> "message", text |-> text, verses |-> <<>>]

VersesResponse(verses) ==
    [status |-> 200, kind |-> "verses", text |-> "", verses |-> format_verse_output(verses)]

NoResponse == [status |-> 0, kind |-> "none", text |-> "", verses |-> <<>>]

-----------------------------------------------------------------------------
(* The handler of /query, run without interruption.  Each operator gives the *)
(* session after the request and the response.                               *)

\* command with "previous" tested before "next"
command_previous_first(query) ==
    LET lowered == Lower(query)
    IN  IF Contains(lowered, kw_previous) THEN "previous"
        ELSE IF Contains(lowered, kw_next) THEN "next"
        ELSE IF Contains(lowered, kw_more) THEN "more"
        ELSE "none"

\* the branch the keyword tests of lines 92, 99 and 107 select
command(query) ==
    LET lowered == Lower(query)
    IN  IF Contains(lowered, kw_next) THEN "next"
        ELSE IF Contains(lowered, kw_previous) THEN "previous"
        ELSE IF Contains(lowered, kw_more) THEN "more"
        ELSE "none"

\* handle_next starting again at the first record past the end of the list
handle_next_wraps(ctx) ==
    LET last_verses == ctx.last_verses
        last_index == ctx.last_index + 1
    IN  IF last_index < Len(last_verses)
        THEN [session |-> [ctx EXCEPT !.last_index = last_index],
              response |-> VersesResponse(<<last_verses[last_index + 1]>>)]
        ELSE [session |-> [ctx EXCEPT !.last_index = 0],
              response |-> VersesResponse(<<last_verses[1]>>)]

\* handle_next emitting the record under the cursor before the increment
handle_next_stale(ctx) ==
    LET last_verses == ctx.last_verses
        last_index == ctx.last_index + 1
    IN  IF last_index < Len(last_verses)
        THEN [session |-> [ctx EXCEPT !.last_index = last_index],
              response |-> VersesResponse(<<last_verses[last_index]>>)]
        ELSE [session |-> ctx, response |-> MessageResponse("No more verses")]

\* lines 93-98
handle_next(ctx) ==
    LET last_verses == ctx.last_verses
        last_index == ctx.last_index + 1
    IN  IF last_index < Len(last_verses)
        THEN [session |-> [ctx EXCEPT !.last_index = last_index],
              response |-> VersesResponse(<<last_verses[last_index + 1]>>)]
        ELSE [session |-> ctx, response |-> MessageResponse("No more verses")]

\* handle_previous returning the record under the cursor before the decrement
handle_previous_stale(ctx) ==
    LET last_verses == ctx.last_verses
        last_index == ctx.last_index - 1
    IN  IF last_index >= 0
        THEN [session |-> [ctx EXCEPT !.last_index = last_index],
              response |-> IF last_index + 1 < Len(last_verses)
                           THEN VersesResponse(<<last_verses[last_index + 2]>>)
                           ELSE ErrorResponse("IndexError", 500)]
        ELSE [session |-> [ctx EXCEPT !.last_index = 0],
              response |-> MessageResponse("Already at first verse")]

\* handle_previous testing last_index > 0
handle_previous_strict(ctx) ==
    LET last_verses == ctx.last_verses
        last_index == ctx.last_index - 1
    IN  IF last_index > 0
        THEN [session |-> [ctx EXCEPT !.last_index = last_index],
              response |-> IF last_index < Len(last_verses)
                           THEN VersesResponse(<<last_verses[last_index + 1]>>)
                           ELSE ErrorResponse("IndexError", 500)]
        ELSE [session |-> [ctx EXCEPT !.last_index = 0],
              response |-> MessageResponse("Already at first verse")]

\* lines 100-106; last_verses[last_index] raises IndexError past the end of
\* the list, after line 102 has stored the index
handle_previous(ctx) ==
    LET last_verses == ctx.last_verses
        last_index == ctx.last_index - 1
    IN  IF last_index >= 0
        THEN [session |-> [ctx EXCEPT !.last_index = last_index],
              response |-> IF last_index < Len(last_verses)
                           THEN VersesResponse(<<last_verses[last_index + 1]>>)
                           ELSE ErrorResponse("IndexError", 500)]
        ELSE [session |-> [ctx EXCEPT !.last_index = 0],
              response |-> MessageResponse("Already at first verse")]

\* handle_more storing the window as the new last_verses
handle_more_replaces(ctx) ==
    LET next_verses == Slice(ctx.last_verses, ctx.last_index + 1,
                             ctx.last_index + 1 + MoreWindow)
    IN  IF next_verses # <<>>
        THEN [session |-> [last_verses |-> next_verses,
                           last_index |-> Len(next_verses) - 1],
              response |-> VersesResponse(next_verses)]
        ELSE [session |-> ctx, response |-> MessageResponse("No more verses")]

\* handle_more with the window starting at the cursor
handle_more_from_cursor(ctx) ==
    LET next_verses == Slice(ctx.last_verses, ctx.last_index,
                             ctx.last_index + MoreWindow)
    IN  IF next_verses # <<>>
        THEN [session |-> [ctx EXCEPT !.last_index = ctx.last_index + Len(next_verses)],
              response |-> VersesResponse(next_verses)]
        ELSE [session |-> ctx, response |-> MessageResponse("No more verses")]

\* lines 108-113
handle_more(ctx) ==
    LET next_verses == Slice(ctx.last_verses, ctx.last_index + 1,
                             ctx.last_index + 1 + MoreWindow)
    IN  IF next_verses # <<>>
        THEN [session |-> [ctx EXCEPT !.last_index = ctx.last_index + Len(next_verses)],
              response |-> VersesResponse(next_verses)]
        ELSE [session |-> ctx, response |-> MessageResponse("No more verses")]

\* new_search without the reset of last_index
new_search_keeps_index(data, vecs, ctx, q_emb) ==
    LET found == search_verses(data, vecs, q_emb, top_k)
    IN  IF found.raised
        THEN [session |-> ctx, response |-> ErrorResponse("IndexError", 500)]
        ELSE IF found.results # <<>>
        THEN [session |-> [last_verses |-> found.results, last_index |-> ctx.last_index],
              response |-> VersesResponse(Slice(found.results, 0, 5))]
        ELSE [session |-> ctx, response |-> MessageResponse("No verses found")]

\* new_search storing the result before testing it
new_search_stores_empty(data, vecs, ctx, q_emb) ==
    LET found == search_verses(data, vecs, q_emb, top_k)
    IN  IF found.raised
        THEN [session |-> ctx, response |-> ErrorResponse("IndexError", 500)]
        ELSE IF found.results # <<>>
        THEN [session |-> [last_verses |-> found.results, last_index |-> 0],
              response |-> VersesResponse(Slice(found.results, 0, 5))]
        ELSE [session |-> [last_verses |-> found.results, last_index |-> 0],
              response |-> MessageResponse("No verses found")]

\* lines 116-122, the embedder returning q_emb for the query
new_search(data, vecs, ctx, q_emb) ==
    LET found == search_verses(data, vecs, q_emb, top_k)
    IN  IF found.raised
        THEN [session |-> ctx, response |-> ErrorResponse("IndexError", 500)]
        ELSE IF found.results # <<>>
        THEN [session |-> [last_verses |-> found.results, last_index |-> 0],
              response |-> VersesResponse(Slice(found.results, 0, 5))]
        ELSE [session |-> ctx, response |-> MessageResponse("No verses found")]

\* query_quran without the strip() of line 82
query_quran_unstripped(data, vecs, ctx, raw, q_emb) ==
    LET query == raw
        cmd == IF ctx.last_verses # <<>> THEN command(query) ELSE "none"
    IN  IF query = <<>>
        THEN [session |-> ctx, response |-> ErrorResponse("Empty query", 400)]
        ELSE IF cmd = "next" THEN handle_next(ctx)
        ELSE IF cmd = "previous" THEN handle_previous(ctx)
        ELSE IF cmd = "more" THEN handle_more(ctx)
        ELSE new_search(data, vecs, ctx, q_emb)

\* query_quran for the body {"query": raw}
query_quran(data, vecs, ctx, raw, q_emb) ==
    LET query == Strip(raw)
        cmd == IF ctx.last_verses # <<>> THEN command(query) ELSE "none"
    IN  IF query = <<>>
        THEN [session |-> ctx, response |-> ErrorResponse("Empty query", 400)]
        ELSE IF cmd = "next" THEN handle_next(ctx)
        ELSE IF cmd = "previous" THEN handle_previous(ctx)
        ELSE IF cmd = "more" THEN handle_more(ctx)
        ELSE new_search(data, vecs, ctx, q_emb)

-----------------------------------------------------------------------------
(* Inputs: the corpus files and the request bodies *)

\* "  "
q_blank == <<" ", " ">>

\* "mercy"
q_mercy == <<"m", "e", "r", "c", "y">>

\* " Next "
q_next == <<" ", "N", "e", "x", "t", " ">>

\* "previous"
q_previous == <<"p", "r", "e", "v", "i", "o", "u", "s">>

\* "more"
q_more == <<"m", "o", "r", "e">>

\* "previous next"
q_previous_next == <<"p", "r", "e", "v", "i", "o", "u", "s", " ", "n", "e", "x", "t">>

\* "tell me more about mercy"
q_tell_me_more == <<"t", "e", "l", "l", " ", "m", "e", " ", "m", "o", "r", "e", " ", "a", "b", "o", "u", "t", " ", "m", "e", "r", "c", "y">>

\* "Moreover"
q_moreover == <<"M", "o", "r", "e", "o", "v", "e", "r">>

RawQueries ==
    {q_blank, q_mercy, q_next, q_previous, q_more, q_previous_next, q_tell_me_more, q_moreover}

\* the vectors the embedder may return for a query
QueryVecs == {<<c>> : c \in 0..MaxCoord}

GoodTafsirs == <<(<<"a">>), (<<" ", "a", " ">>)>>

\* tafsir strings the filter rejects: empty, blank, carrying the marker
BadTafsirs == <<(<<>>), (<<" ">>), (<<"a", "X">>)>>

\* record id of the corpus file; good: it has a usable tafsir.  The kinds of
\* usable and unusable tafsir alternate with the id; every fourth unusable
\* record has no tafsir key at all.
Record(id, good) ==
    IF good THEN [id |-> id, tafsir |-> GoodTafsirs[(id % 2) + 1]]
    ELSE IF id % 4 = 3 THEN [id |-> id]
    ELSE [id |-> id, tafsir |-> BadTafsirs[(id % 4) + 1]]

\* n records, those with lo <= id < hi without a usable tafsir
Corpus(n, lo, hi) == [i \in 1..n |-> Record(i - 1, ~(lo <= i - 1 /\ i - 1 < hi))]

\* n one-dimensional vectors, vector id at coordinate (id + 1) mod (MaxCoord + 1)
Vectors(n) == [i \in 1..n |-> <<(i % (MaxCoord + 1))>>]

EmptySession == [last_verses |-> <<>>, last_index |-> 0]

Threads == 1..NumThreads

\* no vector: the embedder has not been called
NoEmb == <<>>

IdleThread ==
    [pc |-> "idle", query |-> <<>>, emb |-> NoEmb, last_verses |-> <<>>, last_index |-> 0,
     next_verses |-> <<>>, loaded |-> 0, results |-> <<>>, response |-> NoResponse,
     crossed |-> FALSE]

NoRequest == [query |-> <<>>, emb |-> NoEmb]

\* prior: the request handled before the last one and the session it found
NoPrior == [query |-> <<>>, before |-> EmptySession]

\* run: the current run of consecutive requests handled at lines 93-98: the
\* cursor it started from, the verses returned so far, and whether a request
\* of the run was answered "No more verses"
NoRun == [active |-> FALSE, start |-> 0, emitted |-> <<>>, refused |-> FALSE]

-----------------------------------------------------------------------------
(* Requests handled one after the other *)

Init ==
    /\ \E n \in 0..MaxCorpus : \E lo \in 0..n : \E hi \in lo..n :
          /\ quran_data = Corpus(n, lo, hi)
          /\ embeddings = Vectors(n)
    /\ session_context = EmptySession
    /\ request = NoRequest
    /\ before = EmptySession
    /\ response = NoResponse
    /\ thr = [t \in Threads |-> IdleThread]
    /\ base = EmptySession
    /\ serving = TRUE
    /\ prior = NoPrior
    /\ run = NoRun

\* the embedder called for every non-empty query, before the keyword tests
calls_embedder_always(ctx, raw) == Strip(raw) # <<>>

\* the request reaches line 45, where the embedder is called
calls_embedder(ctx, raw) ==
    /\ Strip(raw) # <<>>
    /\ (ctx.last_verses = <<>> \/ command(Strip(raw)) = "none")

\* one POST /query, handled from its first line to its return; q_emb is the
\* vector the embedder returns, NoEmb when it is not called
Handle(raw, q_emb) ==
    LET out == query_quran(quran_data, embeddings, session_context, raw, q_emb)
    IN  /\ serving
        /\ (q_emb # NoEmb) = calls_embedder(session_context, raw)
        /\ request' = [query |-> raw, emb |-> q_emb]
        /\ before' = session_context
        /\ session_context' = out.session
        /\ response' = out.response
        /\ UNCHANGED <<quran_data, embeddings, thr, base, serving>>

Query(raw, q_emb) == Handle(raw, q_emb) /\ UNCHANGED <<prior, run>>

Next == \E raw \in RawQueries : \E q_emb \in QueryVecs \cup {NoEmb} : Query(raw, q_emb)

Spec == Init /\ [][Next]_vars

-----------------------------------------------------------------------------
(* The same, remembering the request before the last one *)

RawQueriesNav == {q_blank, q_mercy, q_next, q_previous, q_more, q_previous_next}

\* corpora whose records without a usable tafsir are the last ones
InitNav ==
    /\ \E n \in 0..MaxCorpus : \E lo \in 0..n :
          /\ quran_data = Corpus(n, lo, n)
          /\ embeddings = Vectors(n)
    /\ session_context = EmptySession
    /\ request = NoRequest
    /\ before = EmptySession
    /\ response = NoResponse
    /\ thr = [t \in Threads |-> IdleThread]
    /\ base = EmptySession
    /\ serving = TRUE
    /\ prior = NoPrior
    /\ run = NoRun

QueryPair(raw, q_emb) ==
    /\ Handle(raw, q_emb)
    /\ prior' = [query |-> request.query, before |-> before]
    /\ UNCHANGED run

NextPair ==
    \E raw \in RawQueriesNav : \E q_emb \in QueryVecs \cup {NoEmb} : QueryPair(raw, q_emb)

SpecPair == InitNav /\ [][NextPair]_vars

-----------------------------------------------------------------------------
(* The same, remembering the current run of consecutive "next" requests *)

\* the request is handled at lines 93-98
reaches_next(ctx, raw) ==
    Strip(raw) # <<>> /\ ctx.last_verses # <<>> /\ command(Strip(raw)) = "next"

QueryRun(raw, q_emb) ==
    /\ Handle(raw, q_emb)
    /\ run' = IF reaches_next(session_context, raw)
              THEN LET r == IF run.active THEN run
                            ELSE [active |-> TRUE, start |-> session_context.last_index,
                                  emitted |-> <<>>, refused |-> FALSE]
                   IN  [r EXCEPT !.emitted = @ \o response'.verses,
                                 !.refused = @ \/ response'.kind = "message"]
              ELSE NoRun
    /\ UNCHANGED prior

NextRun ==
    \E raw \in RawQueriesNav : \E q_emb \in QueryVecs \cup {NoEmb} : QueryRun(raw, q_emb)

SpecRun == InitNav /\ [][NextRun]_vars

-----------------------------------------------------------------------------
(* Requests handled by concurrent threads of the threaded server.  A thread  *)
(* may be preempted between any two accesses to session_context; purely      *)
(* local computation is attached to the access that follows it.  Responses   *)
(* are collected when no request is in flight; base is the session at that   *)
(* moment.                                                                   *)

RawQueriesConc == {q_blank, q_mercy, q_next, q_previous, q_more}

InitConc ==
    /\ \E n \in (MaxCorpus - 1)..MaxCorpus : \E lo \in (n - 1)..n :
          /\ quran_data = Corpus(n, lo, n)
          /\ embeddings = Vectors(n)
    /\ session_context = EmptySession
    /\ request = NoRequest
    /\ before = EmptySession
    /\ response = NoResponse
    /\ thr = [t \in Threads |-> IdleThread]
    /\ base = EmptySession
    /\ serving = TRUE
    /\ prior = NoPrior
    /\ run = NoRun

\* the thread returns resp; crossed records that it emits verses of its own
\* copy of last_verses while session_context holds another list
Finish(t, resp) == [thr EXCEPT ![t].pc = "done", ![t].response = resp]

FinishEmit(t, resp) ==
    [thr EXCEPT ![t].pc = "done", ![t].response = resp,
                ![t].crossed = (thr[t].last_verses # session_context.last_verses)]

\* lines 81-85: read the body, strip the query, reject an empty one
Receive(t, raw, q_emb) ==
    /\ thr[t].pc = "idle"
    /\ LET query == Strip(raw)
       IN  thr' = IF query = <<>>
                  THEN [thr EXCEPT ![t].pc = "done", ![t].query = raw, ![t].emb = q_emb,
                                   ![t].response = ErrorResponse("Empty query", 400)]
                  ELSE [thr EXCEPT ![t].pc = "L88", ![t].query = raw, ![t].emb = q_emb]
    /\ UNCHANGED <<quran_data, embeddings, session_context, request, before, response, base, serving, prior, run>>

\* line 88
ReadLastVerses(t) ==
    /\ thr[t].pc = "L88"
    /\ thr' = [thr EXCEPT ![t].pc = "L89", ![t].last_verses = session_context.last_verses]
    /\ UNCHANGED <<quran_data, embeddings, session_context, request, before, response, base, serving, prior, run>>

\* line 89
ReadLastIndex(t) ==
    /\ thr[t].pc = "L89"
    /\ thr' = [thr EXCEPT ![t].pc = "L91", ![t].last_index = session_context.last_index]
    /\ UNCHANGED <<quran_data, embeddings, session_context, request, before, response, base, serving, prior, run>>

\* lines 91, 92, 99, 107 on the thread's copy of last_verses
Branch(t) ==
    IF thr[t].last_verses # <<>> THEN command(Strip(thr[t].query)) ELSE "none"

\* lines 92-98
DoNext(t) ==
    /\ thr[t].pc = "L91"
    /\ Branch(t) = "next"
    /\ LET last_verses == thr[t].last_verses
           last_index == thr[t].last_index + 1
       IN  IF last_index < Len(last_verses)
           THEN /\ session_context' = [session_context EXCEPT !.last_index = last_index]
                /\ thr' = FinishEmit(t, VersesResponse(<<last_verses[last_index + 1]>>))
           ELSE /\ session_context' = session_context
                /\ thr' = Finish(t, MessageResponse("No more verses"))
    /\ UNCHANGED <<quran_data, embeddings, request, before, response, base, serving, prior, run>>

\* lines 99-106; last_verses[last_index] raises IndexError past the end of
\* the list, after line 102 has stored the index
DoPrevious(t) ==
    /\ thr[t].pc = "L91"
    /\ Branch(t) = "previous"
    /\ LET last_verses == thr[t].last_verses
           last_index == thr[t].last_index - 1
       IN  IF last_index >= 0
           THEN /\ session_context' = [session_context EXCEPT !.last_index = last_index]
                /\ thr' = FinishEmit(t, IF last_index < Len(last_verses)
                                    THEN VersesResponse(<<last_verses[last_index + 1]>>)
                                    ELSE ErrorResponse("IndexError", 500))
           ELSE /\ session_context' = [session_context EXCEPT !.last_index = 0]
                /\ thr' = Finish(t, MessageResponse("Already at first verse"))
    /\ UNCHANGED <<quran_data, embeddings, request, before, response, base, serving, prior, run>>

\* lines 107-109, 112-113 and the read of line 110
MoreLoad(t) ==
    /\ thr[t].pc = "L91"
    /\ Branch(t) = "more"
    /\ LET next_verses == Slice(thr[t].last_verses, thr[t].last_index + 1,
                                thr[t].last_index + 1 + MoreWindow)
       IN  thr' = IF next_verses # <<>>
                  THEN [thr EXCEPT ![t].pc = "L110", ![t].next_verses = next_verses,
                                   ![t].loaded = session_context.last_index]
                  ELSE Finish(t, MessageResponse("No more verses"))
    /\ UNCHANGED <<quran_data, embeddings, session_context, request, before, response, base, serving, prior, run>>

\* the write of line 110, line 111
MoreStore(t) ==
    /\ thr[t].pc = "L110"
    /\ session_context' = [session_context EXCEPT
                               !.last_index = thr[t].loaded + Len(thr[t].next_verses)]
    /\ thr' = FinishEmit(t, VersesResponse(thr[t].next_verses))
    /\ UNCHANGED <<quran_data, embeddings, request, before, response, base, serving, prior, run>>

\* lines 116-118, 121-122
DoSearch(t) ==
    /\ thr[t].pc = "L91"
    /\ Branch(t) = "none"
    /\ LET found == search_verses(quran_data, embeddings, thr[t].emb, top_k)
       IN  IF found.raised
           THEN /\ session_context' = session_context
                /\ thr' = Finish(t, ErrorResponse("IndexError", 500))
           ELSE IF found.results # <<>>
           THEN /\ session_context' = [session_context EXCEPT !.last_verses = found.results]
                /\ thr' = [thr EXCEPT ![t].pc = "L119", ![t].results = found.results]
           ELSE /\ session_context' = session_context
                /\ thr' = Finish(t, MessageResponse("No verses found"))
    /\ UNCHANGED <<quran_data, embeddings, request, before, response, base, serving, prior, run>>

\* lines 119-120
StoreLastIndex(t) ==
    /\ thr[t].pc = "L119"
    /\ session_context' = [session_context EXCEPT !.last_index = 0]
    /\ thr' = Finish(t, VersesResponse(Slice(thr[t].results, 0, 5)))
    /\ UNCHANGED <<quran_data, embeddings, request, before, response, base, serving, prior, run>>

Quiescent == \A t \in Threads : thr[t].pc \in {"idle", "done"}

\* the responses are delivered and the threads are free for further requests
Deliver ==
    /\ Quiescent
    /\ \E t \in Threads : thr[t].pc = "done"
    /\ thr' = [t \in Threads |-> IdleThread]
    /\ base' = session_context
    /\ UNCHANGED <<quran_data, embeddings, session_context, request, before, response, serving, prior, run>>

NextConc ==
    \/ \E t \in Threads : \E raw \in RawQueriesConc : \E q_emb \in QueryVecs : Receive(t, raw, q_emb)
    \/ \E t \in Threads : ReadLastVerses(t)
    \/ \E t \in Threads : ReadLastIndex(t)
    \/ \E t \in Threads : DoNext(t)
    \/ \E t \in Threads : DoPrevious(t)
    \/ \E t \in Threads : MoreLoad(t)
    \/ \E t \in Threads : MoreStore(t)
    \/ \E t \in Threads : DoSearch(t)
    \/ \E t \in Threads : StoreLastIndex(t)
    \/ Deliver

SpecConc == InitConc /\ [][NextConc]_vars

\* the outcomes of handling the requests of the threads T one after the
\* other, in any order, from the session ctx
RECURSIVE SerialOutcomes(_, _, _)
SerialOutcomes(ctx, T, resp) ==
    IF T = {} THEN {[session |-> ctx, resp |-> resp]}
    ELSE UNION {LET out == query_quran(quran_data, embeddings, ctx, thr[t].query, thr[t].emb)
                IN  SerialOutcomes(out.session, T \ {t}, [resp EXCEPT ![t] = out.response])
                : t \in T}

Done == {t \in Threads : thr[t].pc = "done"}

Outcome == [session |-> session_context, resp |-> [t \in Threads |-> thr[t].response]]

Serializable ==
    Quiescent => Outcome \in SerialOutcomes(base, Done, [t \in Threads |-> NoResponse])

-----------------------------------------------------------------------------
(* Properties.  In Spec, request is the request handled last, before the     *)
(* session it found, session_context the session it left and response its   *)
(* response.                                                                 *)

Handled == request # NoRequest

\* the lower-cased query contains the keyword
Asked(kw) == Contains(Lower(Strip(request.query)), kw)

\* how the last request is to be handled, by the documented interpretation
HandledAs ==
    IF ~Handled THEN "nothing"
    ELSE IF Strip(request.query) = <<>> THEN "empty"
    ELSE IF before.last_verses = <<>> THEN "search"
    ELSE IF Asked(kw_next) THEN "next"
    ELSE IF Asked(kw_previous) THEN "previous"
    ELSE IF Asked(kw_more) THEN "more"
    ELSE "search"

Min(a, b) == IF a < b THEN a ELSE b

\* the documented outcome of "next" from the session before
NextOutcome ==
    LET c == before.last_index
        n == Len(before.last_verses)
    IN  IF c + 1 < n
        THEN /\ response = VersesResponse(<<before.last_verses[c + 2]>>)
             /\ session_context = [before EXCEPT !.last_index = c + 1]
        ELSE /\ response = MessageResponse("No more verses")
             /\ session_context = before

\* the documented outcome of "previous" from the session before
PreviousOutcome ==
    LET c == before.last_index
    IN  IF c >= 1
        THEN /\ response = VersesResponse(<<before.last_verses[c]>>)
             /\ session_context = [before EXCEPT !.last_index = c - 1]
        ELSE /\ response = MessageResponse("Already at first verse")
             /\ session_context = [before EXCEPT !.last_index = 0]

\* the documented outcome of "more" from the session before: the records at
\* the 0-based indices c+1 .. min(c+5, n-1), the cursor on the last of them
MoreOutcome ==
    LET c == before.last_index
        n == Len(before.last_verses)
        hi == Min(c + 5, n - 1)
    IN  IF c + 1 < n
        THEN /\ response = VersesResponse([j \in 1..(hi - c) |-> before.last_verses[c + j + 1]])
             /\ session_context = [before EXCEPT !.last_index = hi]
        ELSE /\ response = MessageResponse("No more verses")
             /\ session_context = before

\* the filtered result of the search the last request asks for
Found == search_verses(quran_data, embeddings, request.emb, top_k)

\* the documented outcome of a new search
SearchOutcome ==
    /\ (~Found.raised /\ Found.results = <<>>) =>
          /\ response = MessageResponse("No verses found")
          /\ session_context = before
    /\ (~Found.raised /\ Found.results # <<>>) =>
          /\ session_context = [last_verses |-> Found.results, last_index |-> 0]
          /\ response = VersesResponse(SubSeq(Found.results, 1, Min(5, Len(Found.results))))

\* C1: whenever last_verses is not empty, the committed last_index is an
\* index of it: 0 <= last_index < len(last_verses)
CursorBounds ==
    session_context.last_verses # <<>> =>
        /\ 0 <= session_context.last_index
        /\ session_context.last_index < Len(session_context.last_verses)

\* a new search has replaced the list by one no longer than the old cursor
CursorBoundsWitness ==
    /\ HandledAs = "search"
    /\ session_context.last_verses # <<>>
    /\ session_context.last_verses # before.last_verses
    /\ before.last_index >= Len(session_context.last_verses)

\* C2: the outcome of concurrent requests (the session and every response)
\* is the outcome of handling the same requests one after the other in some
\* order
AtomicTransitions == Serializable

\* C3: under any interleaving the session holds a consistent pair, and no
\* navigation request emits records of one list while the session holds another
ConsistentPair ==
    /\ session_context.last_verses # <<>> =>
          /\ 0 <= session_context.last_index
          /\ session_context.last_index < Len(session_context.last_verses)
    /\ \A t \in Threads : ~thr[t].crossed

\* C4: last_verses changes only by a new search with a non-empty filtered
\* result, and then to that result
LastVersesFrame ==
    (Handled /\ session_context.last_verses # before.last_verses) =>
        /\ HandledAs = "search"
        /\ ~Found.raised
        /\ Found.results # <<>>
        /\ session_context.last_verses = Found.results

\* a navigation request has moved the cursor
LastVersesFrameWitness ==
    /\ HandledAs \in {"next", "previous", "more"}
    /\ session_context.last_index # before.last_index
    /\ session_context.last_verses = before.last_verses

\* C5: "next" emits last_verses[c+1] and commits c+1 when c+1 < len, else
\* answers "No more verses" with status 200 and leaves the cursor at c
NextTransition == HandledAs = "next" => NextOutcome

NextTransitionWitness ==
    /\ HandledAs = "next"
    /\ response.kind = "verses"
    /\ session_context.last_index = before.last_index + 1
    /\ before.last_index >= 1

\* C6: "previous" emits last_verses[c-1] and commits c-1 when c >= 1, else
\* answers "Already at first verse" with status 200 and the cursor is 0
PreviousTransition == HandledAs = "previous" => PreviousOutcome

PreviousTransitionWitness ==
    /\ HandledAs = "previous"
    /\ before.last_index = 1
    /\ session_context.last_index = 0
    /\ response.kind = "verses"

\* C7: "more" emits the records at indices c+1 .. min(c+5, n-1) in order and
\* moves the cursor to the last of them, else answers "No more verses" and
\* leaves the cursor
MoreTransition == HandledAs = "more" => MoreOutcome

\* the first "more" after a fresh search with exactly 5 results
MoreTransitionWitness ==
    /\ HandledAs = "more"
    /\ Len(before.last_verses) = 5
    /\ before.last_index = 0
    /\ Len(response.verses) = 4
    /\ session_context.last_index = 4

\* C8: with results at hand the first of "next", "previous", "more" that the
\* lower-cased query contains decides, wherever it stands; without results
\* every non-empty query is a new search
CommandInterpretation ==
    /\ (Handled /\ before.last_verses # <<>> /\ request.query \in {q_next, q_previous_next}) =>
          NextOutcome
    /\ (Handled /\ before.last_verses # <<>> /\ request.query = q_previous) =>
          PreviousOutcome
    /\ (Handled /\ before.last_verses # <<>>
            /\ request.query \in {q_more, q_tell_me_more, q_moreover}) =>
          MoreOutcome /\ session_context.last_verses = before.last_verses
    /\ (Handled /\ before.last_verses # <<>> /\ request.query = q_mercy) =>
          SearchOutcome
    /\ (Handled /\ before.last_verses = <<>> /\ Strip(request.query) # <<>>) =>
          SearchOutcome

\* "previous next" has been handled as "next"
CommandInterpretationWitness ==
    /\ Handled
    /\ request.query = q_previous_next
    /\ before.last_verses # <<>>
    /\ before.last_index >= 1
    /\ session_context.last_index = before.last_index + 1

\* C9: a new search without presentable records answers "No verses found"
\* with status 200 and leaves last_verses and last_index as they were; one
\* with presentable records stores them, sets last_index to 0 and returns
\* the first (at most 5) of them
NonMutationOnEmptySearch == HandledAs = "search" => SearchOutcome

\* a search found nothing while the session held results
NonMutationOnEmptySearchWitness ==
    /\ HandledAs = "search"
    /\ before.last_verses # <<>>
    /\ ~Found.raised
    /\ Found.results = <<>>
    /\ response.text = "No verses found"

AllPresentable == \A i \in 1..Len(quran_data) : presentable(quran_data[i])

\* C10: with fewer records than top_k, all presentable, a search returns
\* every record at most once, in ranked order; after the three records of a
\* corpus of 3 a further "next" answers "No more verses" with the cursor at 2
SmallCorpusSearch ==
    /\ (HandledAs = "search" /\ response.kind = "verses"
            /\ Len(quran_data) < top_k /\ AllPresentable) =>
          /\ Len(session_context.last_verses) = Len(quran_data)
          /\ session_context.last_verses =
                 [j \in 1..Len(quran_data) |->
                     quran_data[Ranked(embeddings, request.emb, 0..(Len(quran_data) - 1))[j] + 1]]
    /\ (HandledAs = "next" /\ Len(quran_data) = 3 /\ AllPresentable /\ before.last_index = 2) =>
          /\ response = MessageResponse("No more verses")
          /\ session_context.last_index = 2

\* how the request before the last one was handled
PriorHandledAs ==
    IF prior = NoPrior THEN "nothing"
    ELSE IF Strip(prior.query) = <<>> THEN "empty"
    ELSE IF prior.before.last_verses = <<>> THEN "search"
    ELSE IF Contains(Lower(Strip(prior.query)), kw_next) THEN "next"
    ELSE IF Contains(Lower(Strip(prior.query)), kw_previous) THEN "previous"
    ELSE IF Contains(Lower(Strip(prior.query)), kw_more) THEN "more"
    ELSE "search"

\* C11: from cursor c with c+1 < len(last_verses), "next" and then
\* "previous" bring the cursor back to c, leave last_verses as it was, and
\* the response to "previous" is exactly the record last_verses[c]
NextPreviousSymmetry ==
    (/\ PriorHandledAs = "next"
     /\ prior.before.last_index + 1 < Len(prior.before.last_verses)
     /\ HandledAs = "previous") =>
        /\ session_context.last_index = prior.before.last_index
        /\ session_context.last_verses = prior.before.last_verses
        /\ response = VersesResponse(<<prior.before.last_verses[prior.before.last_index + 1]>>)

\* "next" and then "previous" right after a fresh search of two or more results
NextPreviousSymmetryWitness ==
    /\ PriorHandledAs = "next"
    /\ prior.before.last_index = 0
    /\ Len(prior.before.last_verses) >= 2
    /\ HandledAs = "previous"
    /\ session_context.last_index = 0
    /\ response.kind = "verses"

\* C18: a run of consecutive "next" requests from cursor c emits the records
\* at indices c+1 .. n-1, each once and in order, and from then on answers
\* "No more verses" with the cursor at n-1; "next" and "more" never lower the
\* cursor, only "previous" or a successful new search does
ForwardExhaustion ==
    /\ run.active =>
          LET c == run.start
              n == Len(session_context.last_verses)
              i == session_context.last_index
          IN  /\ c <= i /\ i <= n - 1
              /\ run.emitted = format_verse_output(SubSeq(session_context.last_verses, c + 2, i + 1))
              /\ run.refused => (i = n - 1 /\ response = MessageResponse("No more verses"))
              /\ ~run.refused => response.kind = "verses"
    /\ HandledAs \in {"next", "more"} => session_context.last_index >= before.last_index
    /\ (Handled /\ session_context.last_index < before.last_index) =>
          \/ HandledAs = "previous"
          \/ (HandledAs = "search" /\ ~Found.raised /\ Found.results # <<>>)

\* a run from cursor 0 has emitted every further record and has been refused
ForwardExhaustionWitness ==
    /\ run.active
    /\ run.start = 0
    /\ run.refused
    /\ Len(session_context.last_verses) >= 3
    /\ Len(run.emitted) = Len(session_context.last_verses) - 1
    /\ session_context.last_index = Len(session_context.last_verses) - 1

\* the last request ran the search of line 116
Searched == Handled /\ request.emb # NoEmb

\* the labels the index returned for the last request
Labels == index_search(embeddings, request.emb, top_k)

\* the records line 49 takes for these labels
Candidates == [j \in 1..Len(Labels) |-> ListGet(quran_data, Labels[j])]

\* the tafsir of the record is present, not empty after trimming, and without
\* the marker
Usable(v) ==
    /\ "tafsir" \in DOMAIN v
    /\ \E k \in 1..Len(v.tafsir) : v.tafsir[k] \notin Whitespace
    /\ \A k \in 1..Len(v.tafsir) : <<v.tafsir[k]>> # Marker

Distance(id) == L2sqr(request.emb, embeddings[id + 1])

\* C13: the identifiers a new search uses are stored vectors, the k nearest
\* by squared Euclidean distance, nearest first, equal distances by ascending
\* id, at most k of them
SearchRanking ==
    Searched =>
        /\ Len(Labels) <= top_k
        /\ \A j \in 1..Len(Labels) : Labels[j] \in 0..(Len(embeddings) - 1)
        /\ \A i, j \in 1..Len(Labels) :
              i < j => \/ Distance(Labels[i]) < Distance(Labels[j])
                       \/ (Distance(Labels[i]) = Distance(Labels[j]) /\ Labels[i] < Labels[j])
        /\ \A id \in 0..(Len(embeddings) - 1) :
              (\A j \in 1..Len(Labels) : Labels[j] # id) =>
                  \A j \in 1..Len(Labels) :
                      \/ Distance(Labels[j]) < Distance(id)
                      \/ (Distance(Labels[j]) = Distance(id) /\ Labels[j] < id)

\* C14: an empty or blank query is answered 400 "Empty query" before any
\* interpretation or search and leaves the session; every other query that
\* completes is answered 200
EmptyQueryRejection ==
    /\ (Handled /\ \A k \in 1..Len(request.query) : request.query[k] \in Whitespace) =>
          /\ response = ErrorResponse("Empty query", 400)
          /\ session_context = before
          /\ request.emb = NoEmb
    /\ (Handled /\ (\E k \in 1..Len(request.query) : request.query[k] \notin Whitespace)
            /\ ~(Searched /\ Found.raised)) =>
          /\ response.status = 200
          /\ response.kind \in {"message", "verses"}

\* a blank query has been rejected while the session held results
EmptyQueryRejectionWitness ==
    /\ Handled
    /\ request.query = q_blank
    /\ before.last_verses # <<>>
    /\ before.last_index >= 1
    /\ response.status = 400

\* C17: last_verses starts empty and, once not empty, stays so; from then on
\* a query containing "next", "previous" or "more" is navigation: it calls no
\* embedder and starts no search
SessionNeverResets ==
    /\ ~Handled => session_context.last_verses = <<>>
    /\ (Handled /\ before.last_verses # <<>>) =>
          /\ session_context.last_verses # <<>>
          /\ (Asked(kw_next) \/ Asked(kw_previous) \/ Asked(kw_more)) =>
                /\ request.emb = NoEmb
                /\ session_context.last_verses = before.last_verses
                /\ response.text \in {"", "No more verses", "Already at first verse"}

\* a search-like sentence has been taken for navigation
SessionNeverResetsWitness ==
    /\ Handled
    /\ before.last_verses # <<>>
    /\ request.query = q_tell_me_more
    /\ request.emb = NoEmb
    /\ response.kind = "verses"

\* C19: last_verses holds at most 5 records, all presentable, so every record
\* emitted is presentable; a successful new search emits the whole of
\* last_verses, and "more" right after it emits all the remaining records
BoundedPresentable ==
    /\ Len(session_context.last_verses) <= 5
    /\ \A i \in 1..Len(session_context.last_verses) : Usable(session_context.last_verses[i])
    /\ \A i \in 1..Len(response.verses) : Usable(response.verses[i])
    /\ (Searched /\ response.kind = "verses") =>
          response.verses = format_verse_output(session_context.last_verses)
    /\ (HandledAs = "more" /\ before.last_index = 0 /\ Len(before.last_verses) >= 2) =>
          /\ session_context.last_index = Len(before.last_verses) - 1
          /\ response.verses =
                 format_verse_output(SubSeq(before.last_verses, 2, Len(before.last_verses)))

\* "more" after a search of five results, unusable candidates dropped before
BoundedPresentableWitness ==
    /\ HandledAs = "more"
    /\ before.last_index = 0
    /\ Len(before.last_verses) = 5
    /\ Len(response.verses) = 4
    /\ \E i \in 1..Len(quran_data) : ~Usable(quran_data[i])

\* ---- startup: the module body, lines 19-36 ----

\* the largest number of records, and of vectors, in the files read at startup
MaxLoad == 3

\* the process before line 19 has run
InitLoad ==
    /\ quran_data = <<>>
    /\ embeddings = <<>>
    /\ session_context = EmptySession
    /\ request = NoRequest
    /\ before = EmptySession
    /\ response = NoResponse
    /\ thr = [t \in Threads |-> IdleThread]
    /\ base = EmptySession
    /\ serving = FALSE
    /\ prior = NoPrior
    /\ run = NoRun

\* lines 19-36: the records file holds n records and the embeddings file m
\* vectors; flat says an empty array was saved with one dimension, for which
\* embeddings.shape[1] of line 34 raises and the process stops. Nothing
\* compares n with m.
Load(n, lo, hi, m, flat) ==
    /\ ~serving
    /\ quran_data = <<>>
    /\ embeddings = <<>>
    /\ quran_data' = Corpus(n, lo, hi)
    /\ IF m = 0 /\ flat
       THEN /\ embeddings' = <<>>
            /\ serving' = FALSE
            /\ n > 0
       ELSE /\ embeddings' = Vectors(m)
            /\ serving' = TRUE
    /\ UNCHANGED <<session_context, request, before, response, thr, base, prior, run>>

NextLoad ==
    \/ \E n \in 0..MaxLoad : \E lo \in 0..n : \E hi \in lo..n :
          \E m \in 0..MaxLoad : \E flat \in BOOLEAN : Load(n, lo, hi, m, flat)
    \/ \E raw \in RawQueriesNav : \E q_emb \in QueryVecs \cup {NoEmb} : Query(raw, q_emb)

SpecLoad == InitLoad /\ [][NextLoad]_vars

\* C15: a process that serves has as many records as indexed vectors, and
\* every identifier of a stored vector the index returns is a position of
\* quran_data
StartupAlignment ==
    serving =>
        /\ Len(quran_data) = Len(embeddings)
        /\ Searched => \A j \in 1..Len(Labels) :
                           Labels[j] >= 0 => Labels[j] < Len(quran_data)

\* C16: with no vector in the index a new search ends in an error: no
\* records, no "No verses found", the session as before
EmptyIndexRefused ==
    (Searched /\ embeddings = <<>>) =>
        /\ response.kind = "error"
        /\ response.verses = <<>>
        /\ response.text # "No verses found"
        /\ session_context = before

====
